---- MODULE Spec2Model ----
(***************************************************************************)
(* Model of the asynchronous Smartmeter client                            *)
(* (src/src/PyNoeSmartmeter/client.py).                                   *)
(*                                                                         *)
(* A task is a coroutine running one public operation of the client.  Its *)
(* call stack is a sequence of frames; a frame's pc names the await it is *)
(* suspended at, or the statement it resumes at after a callee returned.  *)
(* A step runs one frame from one label to the next.  Labels at which the *)
(* coroutine is really suspended (network and file I/O) are SuspendPcs;   *)
(* a task that is between two suspensions runs alone (CanStep), as on an  *)
(* asyncio event loop.                                                    *)
(*                                                                         *)
(* The server and the file system are the environment: every status, body *)
(* shape and transport error is a nondeterministic input of the step that *)
(* receives it.                                                           *)
(*                                                                         *)
(* The synchronous client (src/src/noe_smartmeter/client.py) has the same *)
(* _call_api loop, login and aggregation; it has no handler around the    *)
(* probe and never clears the stored session.                             *)
(*                                                                         *)
(* Spec runs the client's operations one task at a time (active = {t1});  *)
(* SpecAggregate runs get_consumption_since_date over a provider that     *)
(* answers every period request; SpecConcurrent runs two tasks, each      *)
(* awaiting one _call_api, on a client without a session.                 *)
(***************************************************************************)
EXTENDS Integers, Sequences, FiniteSets, TLC

\* ------------------------------------------------------------------ bounds
\* GETs one _call_api may issue in the model (the code's loop has no bound).
MaxGets == 3

\* ------------------------------------------------------- program constants
\* `while retry_count < 1`
RetryLimit == 1
\* `end_index = 12`: a year series has one bucket per month.
MonthsPerYear == 12
\* A bucket without a value (JSON null, Python None).
Null == -1

\* Calendar of the aggregation model: years 1..NumYears of twelve months,
\* every month of DaysPerMonth days, every day of HoursPerDay hourly buckets.
NumYears == 2
DaysPerMonth == 2
HoursPerDay == 2

\* ---------------------------------------------------------------- domains
Tasks == {"t1", "t2"}
Usernames == {"u1", "u2"}
Passwords == {"p1", "p2"}
\* Cookie sets the server hands out on a successful login.
Cookies == {"c1", "c2"}
\* Python's None.
None == "None"
\* SESSION_FILE: no file, bytes pickle.loads cannot read, or pickled cookies.
Absent == "absent"
Corrupt == "corrupt"
FileContents == {Absent, Corrupt} \cup Cookies
\* HTTP statuses the server answers with; 500 stands for every status other
\* than 200 and 401.
Statuses == {200, 401, 500}
\* Shapes of a 200 response's body, as the accessors read it:
\*   ok        a list whose first element has every key that is read
\*   notjson   response.json() raises JSONDecodeError (a ValueError)
\*   emptylist response.json() is [], so [0] raises IndexError
\*   nokeys    the first element lacks the keys read first (KeyError)
\*   noid      accounting only: the four flags are there, accountId is not
BodyKinds == {"ok", "notjson", "emptylist", "nokeys", "noid"}
\* The three period accessors.
ConsumptionAccessors ==
    {"get_consumption_per_day", "get_consumption_for_month", "get_consumption_for_year"}
\* The public operations a task may be started with.
Operations ==
    {"authenticate", "call_api", "get_user_details", "get_accounting_details",
     "get_meter_details"} \cup ConsumptionAccessors

VARIABLES
    \* ---- the client object
    username,           \* self._username
    password,           \* self._password
    session,            \* self._session: None or the cookies of the live session
    account_id,         \* self._account_id
    metering_point_id,  \* self._metering_point_id
    supports_api,       \* self.supports_api
    \* ---- the session store
    file,               \* content of SESSION_FILE
    \* ---- the tasks
    active,             \* the tasks the application runs
    stack,              \* stack[t]: the frames of task t, innermost last
    exc,                \* exc[t]: the exception propagating in t, or None
    ret,                \* ret[t]: the value the last callee of t returned
    entry,              \* entry[t]: the local `entry` of get_accounting_details
    result,             \* result[t]: outcome of t's operation
    \* ---- observations (history of the latest invocation, per task)
    auth,               \* of authenticate()
    call,               \* of _call_api()
    period,             \* of the period request of a consumption accessor
    \* ---- get_consumption_since_date
    current_date,       \* datetime.date.today()
    input_date,         \* the parsed input_date_string
    offset,             \* the caller's offset
    energy_sum,         \* the running sum
    year,               \* the loop variable of the later-years loop
    since_pc,           \* where get_consumption_since_date stands
    since_result,       \* what it returned or raised
    covered,            \* covered[o]: how many summed buckets hold day o
    counted,            \* the times of the day buckets that were added
    requests            \* the requests it has caused, in order

aggregate == <<current_date, input_date, offset, energy_sum, year, since_pc,
               since_result, covered, counted, requests>>

vars == <<username, password, session, account_id, metering_point_id,
          supports_api, file, active, stack, exc, ret, entry, result, auth, call,
          period, aggregate>>

client == <<username, password, session, account_id, metering_point_id, supports_api>>

\* ----------------------------------------------------------------- frames
Frame(fn, pc) ==
    [fn |-> fn, pc |-> pc, retry_count |-> 0, session |-> None,
     username |-> None, password |-> None]

Top(t) == stack[t][Len(stack[t])]
Pop(s) == SubSeq(s, 1, Len(s) - 1)
At(t, fn, pc) ==
    /\ stack[t] # <<>>
    /\ exc[t] = None
    /\ Top(t).fn = fn
    /\ Top(t).pc = pc

\* The labels at which a coroutine is suspended on network or file I/O.
SuspendPcs == {"lc_read", "probe", "lc_close", "post", "sv_open", "sv_write",
               "sv_close", "get"}

\* Task t is between two suspensions: it holds the event loop.
Running(t) ==
    /\ stack[t] # <<>>
    /\ \/ exc[t] # None
       \/ Top(t).pc \notin SuspendPcs

\* The event loop resumes t only when no other task is running.
CanStep(t) ==
    /\ t \in active
    /\ \A u \in Tasks \ {t} : ~Running(u)

\* ------------------------------------------------------------ observations
NoAuth == [state |-> "none", args |-> FALSE, stored |-> None, loaded |-> None,
           probe |-> 0, posts |-> 0, post_status |-> 0, store_before |-> None,
           nested |-> FALSE, val |-> None]
NoCall == [state |-> "none", live |-> FALSE, trace |-> <<>>, auths |-> 0,
           reauth_ok |-> FALSE, val |-> None]
Idle == [kind |-> "idle", op |-> None, val |-> None]

\* The first element of an accounting response, as far as it is read: the
\* flags hasSmartMeter, hasElectricity, hasCommunicative, hasActive and the
\* accountId (None: the key is missing).  NoEntry: nothing is being read.
Flags == [1..4 -> BOOLEAN]
NoEntry == [flags |-> [i \in 1..4 |-> FALSE], accountId |-> None]

\* ------------------------------------------------- calendar and server data
Dates == [year : 1..NumYears, month : 1..MonthsPerYear, day : 1..DaysPerMonth]
\* Times of day in half hours: the bucket of hour h is stamped 2 * h, an
\* input time may also lie between two buckets.
Slots == 0..(2 * HoursPerDay - 1)
Timestamps == [year : 1..NumYears, month : 1..MonthsPerYear, day : 1..DaysPerMonth,
               slot : Slots]
\* The offset the caller passes.
Offsets == {5}

DateOf(ts) == [year |-> ts.year, month |-> ts.month, day |-> ts.day]
Midnight(d) == [year |-> d.year, month |-> d.month, day |-> d.day, slot |-> 0]
\* The number of a day, counted from the first day of year 1.
DayOrd(d) == ((d.year - 1) * MonthsPerYear + (d.month - 1)) * DaysPerMonth + (d.day - 1)
DayOrds == 0..(NumYears * MonthsPerYear * DaysPerMonth - 1)

\* The provider transmits once a day: a day has data once it is over.
Settled(d) == DayOrd(d) < DayOrd(current_date)

\* What the provider has metered: one unit per hour of a settled day.
DayTotal(d) == IF Settled(d) THEN HoursPerDay ELSE Null
SettledDays(y, m) ==
    {d \in 1..DaysPerMonth : Settled([year |-> y, month |-> m, day |-> d])}

\* The /Day payload zipped: one (time, value) pair per hour.
DaySeries(d) ==
    [h \in 1..HoursPerDay |->
        [time |-> 2 * (h - 1), value |-> IF Settled(d) THEN 1 ELSE Null, days |-> {}]]
\* The /Month payload zipped: one pair per day of the month.  `days` is
\* the set of days the value is the consumption of.
MonthSeries(y, m) ==
    [d \in 1..DaysPerMonth |->
        LET day == [year |-> y, month |-> m, day |-> d]
        IN  [time |-> d, value |-> DayTotal(day),
             days |-> IF Settled(day) THEN {DayOrd(day)} ELSE {}]]
\* The /Year payload zipped: one pair per month.
YearSeries(y) ==
    [m \in 1..MonthsPerYear |->
        [time |-> m,
         value |-> IF SettledDays(y, m) = {} THEN Null
                   ELSE HoursPerDay * Cardinality(SettledDays(y, m)),
         days |-> {DayOrd([year |-> y, month |-> m, day |-> d]) : d \in SettledDays(y, m)}]]

NoDate == [year |-> 1, month |-> 1, day |-> 1]
NoResult == [kind |-> "none", timestamp |-> Midnight(NoDate), consumption |-> 0]

\* ------------------------------------------------------------------- Init
\* A client just constructed (__init__), with whatever an earlier run left in
\* the session file.
TypeOK ==
    /\ username \in Usernames
    /\ password \in Passwords
    /\ session \in Cookies \cup {None}
    /\ account_id \in {None, "acc"}
    /\ metering_point_id \in {None, "mp"}
    /\ supports_api \in BOOLEAN
    /\ file \in FileContents
    /\ active \subseteq Tasks
    /\ \A t \in Tasks : Len(stack[t]) <= 5

Init ==
    /\ username \in Usernames
    /\ password \in Passwords
    /\ session = None
    /\ account_id = None
    /\ metering_point_id = None
    /\ supports_api = FALSE
    /\ file \in FileContents
    /\ active = {"t1"}
    /\ stack = [t \in Tasks |-> <<>>]
    /\ exc = [t \in Tasks |-> None]
    /\ ret = [t \in Tasks |-> None]
    /\ entry = [t \in Tasks |-> NoEntry]
    /\ result = [t \in Tasks |-> Idle]
    /\ auth = [t \in Tasks |-> NoAuth]
    /\ call = [t \in Tasks |-> NoCall]
    /\ period = [t \in Tasks |-> "none"]
    /\ current_date = NoDate
    /\ input_date = Midnight(NoDate)
    /\ offset = 0
    /\ energy_sum = 0
    /\ year = 0
    /\ since_pc = "off"
    /\ since_result = NoResult
    /\ covered = [o \in DayOrds |-> 0]
    /\ counted = {}
    /\ requests = <<>>

\* ------------------------------------------------------- control transfer
\* The running frame of t goes on as f.
Step(t, f) ==
    /\ stack' = [stack EXCEPT ![t] = [@ EXCEPT ![Len(@)] = f]]
    /\ UNCHANGED <<exc, ret, result>>

\* `await g(...)`: the running frame will resume as f once the callee returns.
Invoke(t, f, g) ==
    /\ stack' = [stack EXCEPT ![t] = Append([@ EXCEPT ![Len(@)] = f], g)]
    /\ UNCHANGED <<exc, ret, result>>

\* `return v`: the frame is left; the outermost frame's value is the
\* operation's result.
Return(t, v) ==
    /\ stack' = [stack EXCEPT ![t] = Pop(@)]
    /\ ret' = [ret EXCEPT ![t] = v]
    /\ exc' = [exc EXCEPT ![t] = None]
    /\ result' = IF Len(stack[t]) = 1
                 THEN [result EXCEPT ![t] = [@ EXCEPT !.kind = "returned", !.val = v]]
                 ELSE result

\* `raise e` with no handler in the running frame: the frame is left and e
\* propagates into the caller; leaving the outermost frame, e reaches the
\* application.
Raise(t, e) ==
    /\ stack' = [stack EXCEPT ![t] = Pop(@)]
    /\ ret' = ret
    /\ exc' = [exc EXCEPT ![t] = IF Len(stack[t]) = 1 THEN None ELSE e]
    /\ result' = IF Len(stack[t]) = 1
                 THEN [result EXCEPT ![t] = [@ EXCEPT !.kind = "raised", !.val = e]]
                 ELSE result

\* The application starts operation op on an idle task; authenticate may be
\* given a username and a password.
Start(t, op, u, p) ==
    /\ CanStep(t)
    /\ stack[t] = <<>>
    /\ op # "authenticate" => (u = None /\ p = None)
    /\ stack' = [stack EXCEPT ![t] =
                    <<[Frame(op, "entry") EXCEPT !.username = u, !.password = p]>>]
    /\ result' = [result EXCEPT ![t] = [kind |-> "running", op |-> op, val |-> None]]
    /\ ret' = [ret EXCEPT ![t] = None]
    /\ auth' = [auth EXCEPT ![t] = NoAuth]
    /\ call' = [call EXCEPT ![t] = NoCall]
    /\ period' = [period EXCEPT ![t] = "none"]
    /\ UNCHANGED <<client, file, active, exc>>
    /\ UNCHANGED <<entry, aggregate>>

\* ------------------------------------------------------------ authenticate
\* Exceptions of the transport (httpx.RequestError and its subclasses).
TransportErrors == {"RequestError"}
\* `except (TypeError)` in _check_session.
CheckSessionCaught == {"TypeError"}

\* A _clear_stored_session that leaves the file where it is.
clear_stored_session_kept(f) == f

\* _clear_stored_session: the file is removed if it exists.
clear_stored_session(f) == Absent

\* The store after authenticate's argument handling: one clear per argument
\* given.
StoreAfterArgs(u, p, f) ==
    LET f1 == IF u # None THEN clear_stored_session(f) ELSE f
    IN  IF p # None THEN clear_stored_session(f1) ELSE f1

\* A _check_session with the comparison inverted.
check_session_inverted(status) == status # 200

\* _check_session: the probe's verdict on a status.
check_session(status) == status = 200

\* A login that raises on 401 only and takes every other status as success.
LoginOutcomeNoElse(status) ==
    IF status = 401 THEN "SmartmeterLoginError" ELSE "ok"

\* Outcome of the login POST by status: "ok", or the exception raised.
LoginOutcome(status) ==
    IF status = 200 THEN "ok"
    ELSE IF status = 401 THEN "SmartmeterLoginError"
    ELSE "SmartmeterConnectionError"

\* authenticate up to its first await: the arguments overwrite the
\* credentials and clear the store, then _load_check_session tests whether
\* the file exists and opens it, or the login POST is sent.
authenticate_entry(t) ==
    /\ CanStep(t)
    /\ At(t, "authenticate", "entry")
    /\ LET f == Top(t)
           stored == StoreAfterArgs(f.username, f.password, file)
       IN  /\ username' = IF f.username # None THEN f.username ELSE username
           /\ password' = IF f.password # None THEN f.password ELSE password
           /\ file' = stored
           /\ auth' = [auth EXCEPT ![t] =
                         [NoAuth EXCEPT !.state = "active",
                                        !.args = (f.username # None \/ f.password # None),
                                        !.store_before = file,
                                        !.stored = stored,
                                        !.nested = (Len(stack[t]) > 1)]]
           /\ Step(t, [f EXCEPT !.pc = IF stored # Absent THEN "lc_read" ELSE "post"])
    /\ UNCHANGED <<session, account_id, metering_point_id, supports_api, active,
                   call, period>>
    /\ UNCHANGED <<entry, aggregate>>

\* _load_check_session: the file is read and unpickled; the cookies go into
\* a new client.
load_check_session_read(t) ==
    /\ CanStep(t)
    /\ At(t, "authenticate", "lc_read")
    /\ IF file \in Cookies
       THEN /\ Step(t, [Top(t) EXCEPT !.pc = "probe", !.session = file])
            /\ auth' = [auth EXCEPT ![t].loaded = file]
       ELSE /\ Raise(t, IF file = Absent THEN "FileNotFoundError" ELSE "UnpicklingError")
            /\ auth' = [auth EXCEPT ![t].state = "raised",
                                    ![t].val = IF file = Absent THEN "FileNotFoundError"
                                               ELSE "UnpicklingError"]
    /\ UNCHANGED <<client, file, active, call, period>>
    /\ UNCHANGED <<entry, aggregate>>

\* _check_session: the probe GET answers with a status; 200 makes the loaded
\* session the live one, anything else leads on to the login POST.
check_session_response(t, status) ==
    /\ CanStep(t)
    /\ At(t, "authenticate", "probe")
    /\ auth' = [auth EXCEPT ![t].probe = status]
    /\ IF check_session(status)
       THEN /\ session' = Top(t).session
            /\ Step(t, [Top(t) EXCEPT !.pc = "lc_close"])
       ELSE /\ session' = session
            /\ Step(t, [Top(t) EXCEPT !.pc = "post", !.session = None])
    /\ UNCHANGED <<username, password, account_id, metering_point_id, supports_api,
                   file, active, call, period>>
    /\ UNCHANGED <<entry, aggregate>>

\* _check_session: the probe GET raises e; only the caught types count as
\* "invalid", every other exception leaves authenticate.
check_session_error(t, e) ==
    /\ CanStep(t)
    /\ At(t, "authenticate", "probe")
    /\ IF e \in CheckSessionCaught
       THEN /\ Step(t, [Top(t) EXCEPT !.pc = "post", !.session = None])
            /\ auth' = [auth EXCEPT ![t].probe = -1]
       ELSE /\ Raise(t, e)
            /\ auth' = [auth EXCEPT ![t].probe = -1, ![t].state = "raised", ![t].val = e]
    /\ UNCHANGED <<client, file, active, call, period>>
    /\ UNCHANGED <<entry, aggregate>>

\* _load_check_session returns True: the file is closed, authenticate
\* returns True.
load_check_session_close(t) ==
    /\ CanStep(t)
    /\ At(t, "authenticate", "lc_close")
    /\ Return(t, "True")
    /\ auth' = [auth EXCEPT ![t].state = "returned", ![t].val = "True"]
    /\ UNCHANGED <<client, file, active, call, period>>
    /\ UNCHANGED <<entry, aggregate>>

\* The login POST answers with a status.
login_response(t, status) ==
    /\ CanStep(t)
    /\ At(t, "authenticate", "post")
    /\ IF LoginOutcome(status) = "ok"
       THEN /\ \E k \in Cookies :
                 Step(t, [Top(t) EXCEPT !.pc = "sv_open", !.session = k])
            /\ auth' = [auth EXCEPT ![t].posts = @ + 1, ![t].post_status = status]
       ELSE /\ Raise(t, LoginOutcome(status))
            /\ auth' = [auth EXCEPT ![t].posts = @ + 1, ![t].post_status = status,
                                    ![t].state = "raised",
                                    ![t].val = LoginOutcome(status)]
    /\ UNCHANGED <<client, file, active, call, period>>
    /\ UNCHANGED <<entry, aggregate>>

\* The login POST raises a transport error.
login_error(t, e) ==
    /\ CanStep(t)
    /\ At(t, "authenticate", "post")
    /\ Raise(t, e)
    /\ auth' = [auth EXCEPT ![t].posts = @ + 1, ![t].post_status = -1,
                            ![t].state = "raised", ![t].val = e]
    /\ UNCHANGED <<client, file, active, call, period>>
    /\ UNCHANGED <<entry, aggregate>>

\* _save_session: opening the file "wb" truncates it.
save_session_open(t) ==
    /\ CanStep(t)
    /\ At(t, "authenticate", "sv_open")
    /\ file' = Corrupt
    /\ Step(t, [Top(t) EXCEPT !.pc = "sv_write"])
    /\ UNCHANGED <<client, active, auth, call, period>>
    /\ UNCHANGED <<entry, aggregate>>

\* A _save_session that writes nothing into the file it has opened.
save_session_write_nothing(t) ==
    /\ CanStep(t)
    /\ At(t, "authenticate", "sv_write")
    /\ Step(t, [Top(t) EXCEPT !.pc = "sv_close"])
    /\ UNCHANGED <<client, file, active, auth, call, period>>
    /\ UNCHANGED <<entry, aggregate>>

\* _save_session: the pickled cookies are written.
save_session_write(t) ==
    /\ CanStep(t)
    /\ At(t, "authenticate", "sv_write")
    /\ file' = Top(t).session
    /\ Step(t, [Top(t) EXCEPT !.pc = "sv_close"])
    /\ UNCHANGED <<client, active, auth, call, period>>
    /\ UNCHANGED <<entry, aggregate>>

\* _save_session: the file is closed; the new session becomes the live one
\* and authenticate returns True.
save_session_close(t) ==
    /\ CanStep(t)
    /\ At(t, "authenticate", "sv_close")
    /\ session' = Top(t).session
    /\ Return(t, "True")
    /\ auth' = [auth EXCEPT ![t].state = "returned", ![t].val = "True"]
    /\ UNCHANGED <<username, password, account_id, metering_point_id, supports_api,
                   file, active, call, period>>
    /\ UNCHANGED <<entry, aggregate>>

\* --------------------------------------------------------------- _call_api
\* A loop test that is off by one: `while retry_count <= 1`.
WhileConditionOffByOne(retry_count) == retry_count <= RetryLimit

\* `while retry_count < 1`
WhileCondition(retry_count) == retry_count < RetryLimit

\* The head of the while loop in frame f: the GET is sent with the live
\* session, or the loop is left and the function falls off its end
\* (returning None).
LoopHead(t, f) ==
    IF WhileCondition(f.retry_count)
    THEN /\ Step(t, [f EXCEPT !.pc = "get", !.session = session])
         /\ call' = [call EXCEPT ![t].reauth_ok = (f.pc = "reauth")]
    ELSE /\ Return(t, None)
         /\ call' = [call EXCEPT ![t].state = "returned", ![t].val = None,
                                 ![t].reauth_ok = (f.pc = "reauth")]

\* _call_api up to its first await: without a live session authenticate()
\* is awaited first.
call_api_entry(t) ==
    /\ CanStep(t)
    /\ At(t, "call_api", "entry")
    /\ IF session = None
       THEN /\ Invoke(t, [Top(t) EXCEPT !.pc = "start"], Frame("authenticate", "entry"))
            /\ call' = [call EXCEPT ![t] =
                          [NoCall EXCEPT !.state = "active", !.auths = 1]]
       ELSE /\ Step(t, [Top(t) EXCEPT !.pc = "start"])
            /\ call' = [call EXCEPT ![t] =
                          [NoCall EXCEPT !.state = "active", !.live = TRUE]]
    /\ UNCHANGED <<client, file, active, auth, period>>
    /\ UNCHANGED <<entry, aggregate>>

\* `retry_count = 0` and the first test of the loop.
call_api_start(t) ==
    /\ CanStep(t)
    /\ At(t, "call_api", "start")
    /\ LoopHead(t, [Top(t) EXCEPT !.retry_count = 0])
    /\ UNCHANGED <<client, file, active, auth, period>>
    /\ UNCHANGED <<entry, aggregate>>

\* The GET answers with a status: 401 awaits authenticate(), 200 returns the
\* response, any other status goes round the loop with retry_count as it is.
call_api_response(t, status) ==
    /\ CanStep(t)
    /\ At(t, "call_api", "get")
    /\ Len(call[t].trace) < MaxGets
    /\ IF status = 401
       THEN /\ Invoke(t, [Top(t) EXCEPT !.pc = "reauth"], Frame("authenticate", "entry"))
            /\ call' = [call EXCEPT ![t].trace = Append(@, status),
                                    ![t].auths = @ + 1]
       ELSE IF status = 200
       THEN /\ Return(t, "response")
            /\ call' = [call EXCEPT ![t].trace = Append(@, status),
                                    ![t].state = "returned", ![t].val = "response"]
       ELSE /\ Step(t, [Top(t) EXCEPT !.pc = "again"])
            /\ call' = [call EXCEPT ![t].trace = Append(@, status)]
    /\ UNCHANGED <<client, file, active, auth, period>>
    /\ UNCHANGED <<entry, aggregate>>

\* Neither branch was taken: the loop is tested again.
call_api_again(t) ==
    /\ CanStep(t)
    /\ At(t, "call_api", "again")
    /\ LoopHead(t, Top(t))
    /\ UNCHANGED <<client, file, active, auth, period>>
    /\ UNCHANGED <<entry, aggregate>>

\* The GET raises a transport error, which leaves _call_api.
call_api_error(t, e) ==
    /\ CanStep(t)
    /\ At(t, "call_api", "get")
    /\ Len(call[t].trace) < MaxGets
    /\ Raise(t, e)
    /\ call' = [call EXCEPT ![t].state = "raised", ![t].val = e]
    /\ UNCHANGED <<client, file, active, auth, period>>
    /\ UNCHANGED <<entry, aggregate>>

\* authenticate() returned after a 401: `retry_count += 1`, then the loop
\* is tested again.
call_api_reauth(t) ==
    /\ CanStep(t)
    /\ At(t, "call_api", "reauth")
    /\ LoopHead(t, [Top(t) EXCEPT !.retry_count = @ + 1])
    /\ UNCHANGED <<client, file, active, auth, period>>
    /\ UNCHANGED <<entry, aggregate>>

\* --------------------------------------------------------------- accessors
\* An identifier test that never asks for the lookup.
IsNoneNever(id) == FALSE

\* `if self._account_id is None`, `if self._metering_point_id is None`
IsNone(id) == id = None

\* `except (httpx.RequestError, ValueError)` of the consumption accessors.
AccessorCaught == {"RequestError", "ValueError"}

\* What reading the first element of a 200 body in accessor fn leads to:
\* "ok", or the exception raised.
EntryOutcome(fn, body) ==
    IF body = "notjson" THEN "ValueError"
    ELSE IF body = "emptylist" THEN "IndexError"
    ELSE IF body = "nokeys" /\ fn # "get_user_details" THEN "KeyError"
    ELSE IF body = "noid" /\ fn = "get_accounting_details" THEN "KeyError"
    ELSE "ok"

\* get_user_details / get_accounting_details: _call_api is awaited at once.
details_entry(t, fn) ==
    /\ CanStep(t)
    /\ fn \in {"get_user_details", "get_accounting_details"}
    /\ At(t, fn, "entry")
    /\ Invoke(t, [Top(t) EXCEPT !.pc = "parse"], Frame("call_api", "entry"))
    /\ UNCHANGED <<client, file, active, auth, call, period>>
    /\ UNCHANGED <<entry, aggregate>>

\* get_user_details: response.json()[0]
get_user_details_parse(t, body) ==
    /\ CanStep(t)
    /\ At(t, "get_user_details", "parse")
    /\ IF ret[t] = None THEN Raise(t, "AttributeError")
       ELSE IF EntryOutcome("get_user_details", body) = "ok" THEN Return(t, "entry")
       ELSE Raise(t, EntryOutcome("get_user_details", body))
    /\ UNCHANGED <<client, file, active, auth, call, period>>
    /\ UNCHANGED <<entry, aggregate>>

\* A supports_api that leaves has_active out.
SupportsApiThree(flags) == flags[1] /\ flags[2] /\ flags[3]

\* has_smartmeter and has_electricity and has_communicative and has_active
SupportsApi(flags) == flags[1] /\ flags[2] /\ flags[3] /\ flags[4]

\* get_accounting_details: entry = response.json()[0]
get_accounting_details_parse(t, body, flags) ==
    /\ CanStep(t)
    /\ At(t, "get_accounting_details", "parse")
    /\ IF ret[t] = None
       THEN /\ Raise(t, "AttributeError")
            /\ entry' = entry
       ELSE IF body \in {"ok", "noid"}
       THEN /\ Step(t, [Top(t) EXCEPT !.pc = "assign"])
            /\ entry' = [entry EXCEPT ![t] =
                           [flags |-> flags,
                            accountId |-> IF body = "ok" THEN "acc" ELSE None]]
       ELSE /\ Raise(t, EntryOutcome("get_accounting_details", body))
            /\ entry' = entry
    /\ UNCHANGED <<client, file, active, auth, call, period>>
    /\ UNCHANGED aggregate

\* get_accounting_details: the four flags are read and supports_api is set,
\* then accountId is read and cached.
get_accounting_details_assign(t) ==
    /\ CanStep(t)
    /\ At(t, "get_accounting_details", "assign")
    /\ supports_api' = SupportsApi(entry[t].flags)
    /\ IF entry[t].accountId # None
       THEN /\ account_id' = entry[t].accountId
            /\ Return(t, "entry")
       ELSE /\ account_id' = account_id
            /\ Raise(t, "KeyError")
    /\ entry' = [entry EXCEPT ![t] = NoEntry]
    /\ UNCHANGED <<username, password, session, metering_point_id, file, active,
                   auth, call, period>>
    /\ UNCHANGED aggregate

\* get_meter_details: without an account id get_accounting_details() is
\* awaited first.
get_meter_details_entry(t) ==
    /\ CanStep(t)
    /\ At(t, "get_meter_details", "entry")
    /\ IF IsNone(account_id)
       THEN Invoke(t, [Top(t) EXCEPT !.pc = "call"], Frame("get_accounting_details", "entry"))
       ELSE Invoke(t, [Top(t) EXCEPT !.pc = "parse"], Frame("call_api", "entry"))
    /\ UNCHANGED <<client, file, active, auth, call, period>>
    /\ UNCHANGED <<entry, aggregate>>

\* get_meter_details: the meter request, after the accounting details.
get_meter_details_call(t) ==
    /\ CanStep(t)
    /\ At(t, "get_meter_details", "call")
    /\ Invoke(t, [Top(t) EXCEPT !.pc = "parse"], Frame("call_api", "entry"))
    /\ UNCHANGED <<client, file, active, auth, call, period>>
    /\ UNCHANGED <<entry, aggregate>>

\* get_meter_details: meteringPointId is read and cached.
get_meter_details_parse(t, body) ==
    /\ CanStep(t)
    /\ At(t, "get_meter_details", "parse")
    /\ IF ret[t] = None
       THEN /\ Raise(t, "AttributeError")
            /\ metering_point_id' = metering_point_id
       ELSE IF EntryOutcome("get_meter_details", body) = "ok"
       THEN /\ metering_point_id' = "mp"
            /\ Return(t, "entry")
       ELSE /\ metering_point_id' = metering_point_id
            /\ Raise(t, EntryOutcome("get_meter_details", body))
    /\ UNCHANGED <<username, password, session, account_id, supports_api, file,
                   active, auth, call, period>>
    /\ UNCHANGED <<entry, aggregate>>

\* A consumption accessor: without a metering point id get_meter_details()
\* is awaited first, outside the try block; otherwise the period request is
\* made inside it.
get_consumption_entry(t, fn) ==
    /\ CanStep(t)
    /\ fn \in ConsumptionAccessors
    /\ At(t, fn, "entry")
    /\ IF IsNone(metering_point_id)
       THEN /\ Invoke(t, [Top(t) EXCEPT !.pc = "try"], Frame("get_meter_details", "entry"))
            /\ period' = period
       ELSE /\ Invoke(t, [Top(t) EXCEPT !.pc = "parse"], Frame("call_api", "entry"))
            /\ period' = [period EXCEPT ![t] = "requested"]
    /\ UNCHANGED <<client, file, active, auth, call>>
    /\ UNCHANGED <<entry, aggregate>>

\* A consumption accessor: the period request, after the meter details.
get_consumption_try(t, fn) ==
    /\ CanStep(t)
    /\ fn \in ConsumptionAccessors
    /\ At(t, fn, "try")
    /\ Invoke(t, [Top(t) EXCEPT !.pc = "parse"], Frame("call_api", "entry"))
    /\ period' = [period EXCEPT ![t] = "requested"]
    /\ UNCHANGED <<client, file, active, auth, call>>
    /\ UNCHANGED <<entry, aggregate>>

\* A consumption accessor: the response is read inside the try block
\* (raise_for_status / json()[0] / the two arrays zipped); a caught
\* exception returns [].
get_consumption_parse(t, fn, body) ==
    /\ CanStep(t)
    /\ fn \in ConsumptionAccessors
    /\ At(t, fn, "parse")
    /\ IF ret[t] = None
       THEN /\ Raise(t, "AttributeError")
            /\ period' = [period EXCEPT ![t] = "noresult"]
       ELSE IF EntryOutcome(fn, body) = "ok"
       THEN /\ Return(t, "series")
            /\ period' = [period EXCEPT ![t] = "ok"]
       ELSE IF EntryOutcome(fn, body) \in AccessorCaught
       THEN /\ Return(t, "empty")
            /\ period' = [period EXCEPT ![t] = body]
       ELSE /\ Raise(t, EntryOutcome(fn, body))
            /\ period' = [period EXCEPT ![t] = body]
    /\ UNCHANGED <<client, file, active, auth, call>>
    /\ UNCHANGED <<entry, aggregate>>

\* An exception propagating out of a callee reaches the frame that awaited
\* it: a consumption accessor inside its try block returns [] for the types
\* it catches; every other frame is left in turn.
Unwind(t) ==
    /\ CanStep(t)
    /\ stack[t] # <<>>
    /\ exc[t] # None
    /\ LET f == Top(t)
           in_try == f.fn \in ConsumptionAccessors /\ f.pc = "parse"
       IN  /\ IF in_try /\ exc[t] \in AccessorCaught
              THEN Return(t, "empty")
              ELSE Raise(t, exc[t])
           /\ period' = IF in_try THEN [period EXCEPT ![t] = exc[t]] ELSE period
           /\ call' = IF f.fn = "call_api"
                      THEN [call EXCEPT ![t].state = "raised", ![t].val = exc[t]]
                      ELSE call
    /\ UNCHANGED <<client, file, active, auth>>
    /\ UNCHANGED <<entry, aggregate>>

\* ------------------------------------------------------------------- Next
Next ==
    \E t \in Tasks :
        \/ \E op \in Operations, u \in Usernames \cup {None}, p \in Passwords \cup {None} :
              Start(t, op, u, p)
        \/ authenticate_entry(t)
        \/ load_check_session_read(t)
        \/ \E status \in Statuses : check_session_response(t, status)
        \/ \E e \in TransportErrors : check_session_error(t, e)
        \/ load_check_session_close(t)
        \/ \E status \in Statuses : login_response(t, status)
        \/ \E e \in TransportErrors : login_error(t, e)
        \/ save_session_open(t)
        \/ save_session_write(t)
        \/ save_session_close(t)
        \/ call_api_entry(t)
        \/ call_api_start(t)
        \/ \E status \in Statuses : call_api_response(t, status)
        \/ call_api_again(t)
        \/ \E e \in TransportErrors : call_api_error(t, e)
        \/ call_api_reauth(t)
        \/ \E fn \in {"get_user_details", "get_accounting_details"} : details_entry(t, fn)
        \/ \E body \in BodyKinds : get_user_details_parse(t, body)
        \/ \E body \in BodyKinds, flags \in Flags :
              get_accounting_details_parse(t, body, flags)
        \/ get_accounting_details_assign(t)
        \/ get_meter_details_entry(t)
        \/ get_meter_details_call(t)
        \/ \E body \in BodyKinds : get_meter_details_parse(t, body)
        \/ \E fn \in ConsumptionAccessors : get_consumption_entry(t, fn)
        \/ \E fn \in ConsumptionAccessors : get_consumption_try(t, fn)
        \/ \E fn \in ConsumptionAccessors, body \in BodyKinds :
              get_consumption_parse(t, fn, body)
        \/ Unwind(t)

Spec == Init /\ [][Next]_vars

\* ------------------------------------------------------ concurrent callers
\* The application runs two tasks on one client just constructed, with no
\* session stored; each task awaits one _call_api.  A task is resumed only at its awaits (CanStep).
InitConcurrent ==
    /\ username = "u1"
    /\ password = "p1"
    /\ session = None
    /\ account_id = None
    /\ metering_point_id = None
    /\ supports_api = FALSE
    /\ file = Absent
    /\ active = Tasks
    /\ stack = [t \in Tasks |-> <<>>]
    /\ exc = [t \in Tasks |-> None]
    /\ ret = [t \in Tasks |-> None]
    /\ entry = [t \in Tasks |-> NoEntry]
    /\ result = [t \in Tasks |-> Idle]
    /\ auth = [t \in Tasks |-> NoAuth]
    /\ call = [t \in Tasks |-> NoCall]
    /\ period = [t \in Tasks |-> "none"]
    /\ current_date = NoDate
    /\ input_date = Midnight(NoDate)
    /\ offset = 0
    /\ energy_sum = 0
    /\ year = 0
    /\ since_pc = "off"
    /\ since_result = NoResult
    /\ covered = [o \in DayOrds |-> 0]
    /\ counted = {}
    /\ requests = <<>>

\* Task t is given its one operation.
StartOnce(t) ==
    /\ result[t].kind = "idle"
    /\ Start(t, "call_api", None, None)

NextConcurrent ==
    \E t \in Tasks :
        \/ StartOnce(t)
        \/ authenticate_entry(t)
        \/ load_check_session_read(t)
        \/ \E status \in Statuses : check_session_response(t, status)
        \/ \E e \in TransportErrors : check_session_error(t, e)
        \/ load_check_session_close(t)
        \/ \E status \in Statuses : login_response(t, status)
        \/ \E e \in TransportErrors : login_error(t, e)
        \/ save_session_open(t)
        \/ save_session_write(t)
        \/ save_session_close(t)
        \/ call_api_entry(t)
        \/ call_api_start(t)
        \/ \E status \in Statuses : call_api_response(t, status)
        \/ call_api_again(t)
        \/ \E e \in TransportErrors : call_api_error(t, e)
        \/ call_api_reauth(t)
        \/ Unwind(t)

SpecConcurrent == InitConcurrent /\ [][NextConcurrent]_vars

\* ------------------------------------------------ get_consumption_since_date
\* The aggregation is modelled over a provider that answers every period
\* request: each accessor returns the series the provider holds.

\* Python's s[a:b] on a sequence (a, b >= 0).
PySlice(s, a, b) ==
    LET hi == IF b < Len(s) THEN b ELSE Len(s)
    IN  IF a >= hi THEN <<>> ELSE SubSeq(s, a + 1, hi)

\* sum(value[1] for value in s if value[1] is not None)
RECURSIVE SumNotNone(_)
SumNotNone(s) ==
    IF s = <<>> THEN 0
    ELSE (IF Head(s).value # Null THEN Head(s).value ELSE 0) + SumNotNone(Tail(s))

\* The days held by the buckets of s that are summed.
DaysSummed(s) ==
    UNION {s[i].days : i \in {j \in 1..Len(s) : s[j].value # Null}}

\* A selection that also takes the bucket stamped with the input time.
AfterInputOrAt(day_data, ts) ==
    SelectSeq(day_data, LAMBDA b : b.time >= ts.slot)

\* The buckets of the day series whose time is after the input time.
AfterInput(day_data, ts) ==
    SelectSeq(day_data, LAMBDA b : b.time > ts.slot)

\* for time, consumption in day_data: ... energy_sum += consumption
RECURSIVE SumAll(_)
SumAll(s) == IF s = <<>> THEN 0 ELSE Head(s).value + SumAll(Tail(s))

\* `end_index`: 12, or current_date.month - 1 in the current year.
EndIndex(ts, today) ==
    IF ts.year = today.year THEN today.month - 1 ELSE MonthsPerYear

\* A later-years loop that starts with the input year.
StartYearSame(ts, today) == ts.year

\* `start_year`
StartYear(ts, today) ==
    IF ts.year + 1 <= today.year THEN ts.year + 1 ELSE ts.year

Cover(days) == [o \in DayOrds |-> covered[o] + (IF o \in days THEN 1 ELSE 0)]

\* What the provider answers to the /Day request for day d: the series it
\* holds, or that series with the value of the last hour missing.
DayResponses(d) ==
    {DaySeries(d), [DaySeries(d) EXCEPT ![HoursPerDay].value = Null]}

\* The requests an accessor causes before its own period request: the login
\* of _call_api when there is no live session, and the lookups of the
\* identifiers that are not cached yet.
LazyRequests ==
    (IF session = None THEN <<"login">> ELSE <<>>)
    \o (IF metering_point_id = None
        THEN (IF account_id = None THEN <<"accounting">> ELSE <<>>) \o <<"meter">>
        ELSE <<>>)

\* `await self.get_consumption_per_day / _for_month / _for_year (...)`: the
\* period request of the given kind, after the requests it needs first.
Fetch(kind) ==
    /\ requests' = requests \o LazyRequests \o <<kind>>
    /\ session' = IF session = None THEN "c1" ELSE session
    /\ file' = IF session = None THEN "c1" ELSE file
    /\ account_id' = IF metering_point_id = None THEN "acc" ELSE account_id
    /\ supports_api' = IF metering_point_id = None /\ account_id = None
                       THEN TRUE ELSE supports_api
    /\ metering_point_id' = "mp"
    /\ UNCHANGED <<username, password>>

\* A comparison of today's date with the input's date and time.
SameDayAndTime(today, ts) == Midnight(today) = ts

\* `current_date == input_date.date()`
SameDay(today, ts) == today = DateOf(ts)

\* The call, up to the first fetch: an input dated today is returned as it
\* came.
get_consumption_since_date(ts, off) ==
    /\ since_pc = "idle"
    /\ input_date' = ts
    /\ offset' = off
    /\ energy_sum' = 0
    /\ year' = 0
    /\ covered' = [o \in DayOrds |-> 0]
    /\ counted' = {}
    /\ requests' = <<>>
    /\ IF SameDay(current_date, ts)
       THEN /\ since_result' = [kind |-> "returned", timestamp |-> ts, consumption |-> off]
            /\ since_pc' = "done"
       ELSE /\ since_result' = NoResult
            /\ since_pc' = "day"
    /\ UNCHANGED <<client, file, active, stack, exc, ret, entry, result, auth, call, period,
                   current_date>>

\* The day series of the input date: every bucket after the input time is
\* added; adding a bucket without a value raises TypeError.
since_date_day(day_data) ==
    /\ since_pc = "day"
    /\ Fetch("day")
    /\ LET later == AfterInput(day_data, input_date)
       IN  IF \E i \in 1..Len(later) : later[i].value = Null
           THEN /\ since_result' = [NoResult EXCEPT !.kind = "TypeError"]
                /\ since_pc' = "done"
                /\ UNCHANGED <<energy_sum, counted>>
           ELSE /\ energy_sum' = energy_sum + SumAll(later)
                /\ counted' = {later[i].time : i \in 1..Len(later)}
                /\ since_pc' = "month"
                /\ since_result' = since_result
    /\ UNCHANGED <<active, stack, exc, ret, entry, result, auth, call, period,
                   current_date, input_date, offset, year, covered>>

\* The month series of the input month: month_data[input_date.day:]
since_date_month ==
    /\ since_pc = "month"
    /\ Fetch("month")
    /\ LET month_data == MonthSeries(input_date.year, input_date.month)
           rest == PySlice(month_data, input_date.day, Len(month_data))
       IN  /\ energy_sum' = energy_sum + SumNotNone(rest)
           /\ covered' = Cover(DaysSummed(rest))
    /\ since_pc' = "year"
    /\ UNCHANGED <<active, stack, exc, ret, entry, result, auth, call, period,
                   current_date, input_date, offset, year, since_result, counted>>

\* The year series of the input year: year_data[start_index:end_index];
\* in another year than the current one the later-years loop is entered.
since_date_year ==
    /\ since_pc = "year"
    /\ Fetch("year")
    /\ LET year_data == YearSeries(input_date.year)
           rest == PySlice(year_data, input_date.month, EndIndex(input_date, current_date))
       IN  /\ energy_sum' = energy_sum + SumNotNone(rest)
           /\ covered' = Cover(DaysSummed(rest))
    /\ IF input_date.year # current_date.year
       THEN /\ year' = StartYear(input_date, current_date)
            /\ since_pc' = "years"
       ELSE /\ year' = year
            /\ since_pc' = "return"
    /\ UNCHANGED <<active, stack, exc, ret, entry, result, auth, call, period,
                   current_date, input_date, offset, since_result, counted>>

\* for year in range(start_year, current_date.year + 1): the whole year
\* series is added.
since_date_years ==
    /\ since_pc = "years"
    /\ IF year < current_date.year + 1
       THEN /\ Fetch("year")
            /\ energy_sum' = energy_sum + SumNotNone(YearSeries(year))
            /\ covered' = Cover(DaysSummed(YearSeries(year)))
            /\ year' = year + 1
            /\ since_pc' = "years"
       ELSE /\ since_pc' = "return"
            /\ UNCHANGED <<client, file, requests, energy_sum, covered, year>>
    /\ UNCHANGED <<active, stack, exc, ret, entry, result, auth, call, period,
                   current_date, input_date, offset, since_result, counted>>

\* return {"timestamp": today 00:00, "consumption": energy_sum + offset}
since_date_return ==
    /\ since_pc = "return"
    /\ since_result' = [kind |-> "returned", timestamp |-> Midnight(current_date),
                        consumption |-> energy_sum + offset]
    /\ since_pc' = "done"
    /\ UNCHANGED <<client, file, active, stack, exc, ret, entry, result, auth, call, period,
                   current_date, input_date, offset, energy_sum, year, covered,
                   counted, requests>>

\* A client on any day of the calendar, about to be asked for one
\* aggregation: either just constructed with no session stored, or set up
\* and logged in.
InitAggregate ==
    /\ username = "u1"
    /\ password = "p1"
    /\ \/ /\ session = None
          /\ file = Absent
          /\ account_id = None
          /\ metering_point_id = None
          /\ supports_api = FALSE
       \/ /\ session = "c1"
          /\ file = session
          /\ account_id = "acc"
          /\ metering_point_id = "mp"
          /\ supports_api = TRUE
    /\ active = {}
    /\ stack = [t \in Tasks |-> <<>>]
    /\ exc = [t \in Tasks |-> None]
    /\ ret = [t \in Tasks |-> None]
    /\ entry = [t \in Tasks |-> NoEntry]
    /\ result = [t \in Tasks |-> Idle]
    /\ auth = [t \in Tasks |-> NoAuth]
    /\ call = [t \in Tasks |-> NoCall]
    /\ period = [t \in Tasks |-> "none"]
    /\ current_date \in Dates
    /\ input_date = Midnight(NoDate)
    /\ offset = 0
    /\ energy_sum = 0
    /\ year = 0
    /\ since_pc = "idle"
    /\ since_result = NoResult
    /\ covered = [o \in DayOrds |-> 0]
    /\ counted = {}
    /\ requests = <<>>

NextAggregate ==
    \/ \E ts \in Timestamps, off \in Offsets : get_consumption_since_date(ts, off)
    \/ \E day_data \in DayResponses(DateOf(input_date)) : since_date_day(day_data)
    \/ since_date_month
    \/ since_date_year
    \/ since_date_years
    \/ since_date_return

SpecAggregate == InitAggregate /\ [][NextAggregate]_vars

\* ================================================================== claims
\* The authenticate frame of task t, if it is t's running frame.
InAuthenticate(t) == stack[t] # <<>> /\ Top(t).fn = "authenticate"

\* C1: a _call_api on a live session whose first GET was answered 401 and
\* which has returned has issued the GET a second time, and has returned the
\* response if that second answer was 200.
C1_RetryAfter401 ==
    \A t \in Tasks :
        ( /\ call[t].live
          /\ call[t].state = "returned"
          /\ call[t].trace # <<>>
          /\ call[t].trace[1] = 401 )
        => /\ Len(call[t].trace) = 2
           /\ call[t].trace[2] = 200 => call[t].val = "response"

\* C2: one _call_api issues at most two GETs to its URL, whatever the
\* statuses.
C2_AtMostTwoGets ==
    \A t \in Tasks : Len(call[t].trace) <= 2

\* C3: a _call_api entered with a live session awaits authenticate() at most
\* once, and only after a 401.
C3_AtMostOneAuthenticate ==
    \A t \in Tasks :
        call[t].live =>
            /\ call[t].auths <= 1
            /\ call[t].auths = 1 => call[t].trace[Len(call[t].trace)] = 401

\* A call on a live session has returned after a 500 and then a 401, having
\* re-authenticated once.
C3_Witness ==
    \E t \in Tasks :
        /\ call[t].live
        /\ call[t].state = "returned"
        /\ call[t].auths = 1
        /\ call[t].trace = <<500, 401>>

\* C4: when authenticate() without arguments has loaded a persisted session
\* and the probe answered 200, that session is the live one, no POST is
\* sent, and authenticate does not raise.
C4_SessionReuse ==
    \A t \in Tasks :
        (auth[t].probe = 200 /\ ~auth[t].args) =>
            /\ auth[t].loaded \in Cookies
            /\ session = auth[t].loaded
            /\ auth[t].posts = 0
            /\ auth[t].state \in {"active", "returned"}
            /\ auth[t].state = "active" => (InAuthenticate(t) /\ Top(t).pc = "lc_close")

\* authenticate() has returned True with the persisted session adopted.
C4_Witness ==
    \E t \in Tasks :
        /\ result[t].op = "authenticate"
        /\ result[t].kind = "returned"
        /\ result[t].val = "True"
        /\ auth[t].probe = 200
        /\ auth[t].store_before \in Cookies
        /\ session = auth[t].store_before
        /\ auth[t].posts = 0

\* C5: when authenticate() is given a username or a password, the store is
\* empty before the load step, nothing is loaded or probed, the credentials
\* are the given ones, and the call goes to the login POST: once it has
\* ended it has sent exactly one.
C5_ClearOnCredentials ==
    \A t \in Tasks :
        auth[t].args =>
            /\ auth[t].stored = Absent
            /\ auth[t].loaded = None
            /\ auth[t].probe = 0
            /\ auth[t].state \in {"returned", "raised"} => auth[t].posts = 1
            /\ (auth[t].state = "active" /\ InAuthenticate(t)) =>
                  /\ Top(t).pc \in {"post", "sv_open", "sv_write", "sv_close"}
                  /\ Top(t).username # None => username = Top(t).username
                  /\ Top(t).password # None => password = Top(t).password

\* authenticate(username, ...) found a persisted session, did not use it and
\* logged in afresh.
C5_Witness ==
    \E t \in Tasks :
        /\ auth[t].args
        /\ auth[t].store_before \in Cookies
        /\ auth[t].state = "returned"
        /\ auth[t].posts = 1
        /\ file \in Cookies

\* C6: one authenticate() sends at most one login POST; 200 goes on to save
\* the session and return, 401 raises SmartmeterLoginError, another status
\* raises SmartmeterConnectionError; after a failed login the store is as it
\* was before the POST.
C6_LoginByStatus ==
    \A t \in Tasks :
        /\ auth[t].posts <= 1
        /\ auth[t].posts = 0 <=> auth[t].post_status = 0
        /\ auth[t].post_status = 200 => auth[t].state \in {"active", "returned"}
        /\ (auth[t].state = "returned" /\ auth[t].posts = 1) => auth[t].post_status = 200
        /\ auth[t].post_status = 401 =>
              (auth[t].state = "raised" /\ auth[t].val = "SmartmeterLoginError")
        /\ auth[t].post_status = 500 =>
              (auth[t].state = "raised" /\ auth[t].val = "SmartmeterConnectionError")
        /\ auth[t].post_status \in {401, 500, -1} => file = auth[t].stored

\* A persisted session was probed invalid, the login was answered 500 and
\* raised, and the store still holds the old blob.
C6_Witness ==
    \E t \in Tasks :
        /\ auth[t].post_status = 500
        /\ auth[t].state = "raised"
        /\ auth[t].val = "SmartmeterConnectionError"
        /\ auth[t].posts = 1
        /\ auth[t].stored \in Cookies
        /\ file = auth[t].stored

\* C7: a transport error of the validation probe makes authenticate() go on
\* to the login POST; if authenticate raises after it, the login raised.
C7_ProbeErrorIsInvalid ==
    \A t \in Tasks :
        (auth[t].probe = -1 /\ auth[t].state = "raised") => auth[t].posts = 1

\* C8: a persisted blob that cannot be deserialized makes authenticate() go
\* on to the login POST; if authenticate raises after it, the login raised.
C8_UndeserializableIsAbsent ==
    \A t \in Tasks :
        (auth[t].stored = Corrupt /\ auth[t].state = "raised") => auth[t].posts = 1

\* C9: a consumption accessor whose period request failed (transport error,
\* no usable result from _call_api, or a body without the arrays) does not
\* raise: it returns the empty series.
C9_AccessorNeverRaises ==
    \A t \in Tasks :
        ( /\ result[t].op \in ConsumptionAccessors
          /\ result[t].kind \in {"returned", "raised"}
          /\ period[t] \in {"RequestError", "noresult", "nokeys"} )
        => (result[t].kind = "returned" /\ result[t].val = "empty")

\* What the provider metered from the input time (exclusive) to today
\* 00:00: the hours of the input day after the input time, and every hour of
\* the days between the input date and today.
ConsumptionSince(ts, today) ==
    Len(AfterInput(DaySeries(DateOf(ts)), ts))
    + HoursPerDay * Cardinality({o \in DayOrds : DayOrd(DateOf(ts)) < o /\ o < DayOrd(today)})

\* C10: for an input dated before today the total returned is the offset
\* plus the consumption since the input time, and every day after the input
\* date and before today is held by a summed bucket.
C10_WholePeriod ==
    ( /\ since_pc = "done"
      /\ since_result.kind = "returned"
      /\ DayOrd(DateOf(input_date)) < DayOrd(current_date) )
    => /\ since_result.consumption = offset + ConsumptionSince(input_date, current_date)
       /\ \A o \in DayOrds :
             (DayOrd(DateOf(input_date)) < o /\ o < DayOrd(current_date)) => covered[o] >= 1

\* The times of all the buckets of a day series.
BucketTimes == {2 * (h - 1) : h \in 1..HoursPerDay}

\* C11: get_consumption_since_date does not raise because of a bucket
\* without a value: once the call has ended, it has returned.
C11_NullBucketsSkipped ==
    since_pc = "done" => since_result.kind = "returned"

\* C12: called with an input dated today, get_consumption_since_date ends at
\* once: it returns the input timestamp and the caller's offset, causes no
\* request and leaves the client and the session store as they are.
C12_SameDayReturnsInput ==
    [][ (since_pc = "idle" /\ since_pc' # "idle" /\ current_date = DateOf(input_date'))
        => /\ since_pc' = "done"
           /\ since_result' = [kind |-> "returned", timestamp |-> input_date',
                               consumption |-> offset']
           /\ requests' = <<>>
           /\ UNCHANGED <<client, file>> ]_vars

\* A client without a session was asked with today 00:30 and offset 5: it
\* has returned 5 and is still without a session and identifiers.
C12_Witness ==
    /\ since_pc = "done"
    /\ current_date = DateOf(input_date)
    /\ input_date.slot = 1
    /\ offset = 5
    /\ since_result = [kind |-> "returned", timestamp |-> input_date, consumption |-> 5]
    /\ requests = <<>>
    /\ session = None
    /\ metering_point_id = None

\* C14: once the day step is done, the day buckets that were added are
\* exactly those stamped strictly after the input time, and right after the
\* step the sum is their number (every hour of the day meters one unit).
C14_StrictlyAfter ==
    (since_pc \notin {"idle", "day"} /\ current_date # DateOf(input_date)
       /\ since_result.kind # "TypeError")
    => /\ counted = {b \in BucketTimes : b > input_date.slot}
       /\ since_pc = "month" => energy_sum = Cardinality(counted)

\* Input at the half hour between the first and the second bucket: only the
\* second bucket was added.
C14_Witness ==
    /\ since_pc = "month"
    /\ input_date.slot = 1
    /\ counted = {2}
    /\ energy_sum = 1

\* C17: for an input dated before today no day is held by two summed month
\* or year buckets, and the input day, whose hours come from the day
\* series, is held by none.
C17_NoDoubleCounting ==
    (since_pc \notin {"idle", "off"} /\ DayOrd(DateOf(input_date)) < DayOrd(current_date))
    => /\ \A o \in DayOrds : covered[o] <= 1
       /\ covered[DayOrd(DateOf(input_date))] = 0

\* An aggregation from the first day of a month of an earlier year has
\* returned, having summed day, month and year buckets: every day after the
\* input day and before today is held by exactly one of them.
C17_Witness ==
    /\ since_pc = "done"
    /\ since_result.kind = "returned"
    /\ input_date.year < current_date.year
    /\ input_date.month < MonthsPerYear
    /\ input_date.day < DaysPerMonth
    /\ current_date.month > 1
    /\ \A o \in DayOrds :
          (DayOrd(DateOf(input_date)) < o /\ o < DayOrd(current_date)) => covered[o] = 1

\* Task t is at the assignments of get_accounting_details, holding the
\* entry of the response it has just received.
AssigningFlags(t) == At(t, "get_accounting_details", "assign")

\* C13: supports_api is false on a new client; it changes only when
\* get_accounting_details assigns it, and what is assigned is true exactly
\* when all four flags of the response just received are true.
C13_SupportsApiTable ==
    /\ ~supports_api
    /\ [][ /\ \A t \in Tasks :
                (AssigningFlags(t) /\ stack'[t] # stack[t])
                => supports_api' = (\A i \in 1..4 : entry[t].flags[i])
           /\ supports_api' # supports_api => \E t \in Tasks : AssigningFlags(t)
         ]_vars

\* get_accounting_details has returned from a response with all four flags
\* true: the account id is cached and supports_api is true.
C13_Witness ==
    \E t \in Tasks :
        /\ result[t].op = "get_accounting_details"
        /\ result[t].kind = "returned"
        /\ supports_api
        /\ account_id = "acc"

\* C15: when the authenticate() awaited by _call_api after a 401 has
\* returned, it has sent the login POST and has not taken a persisted
\* session on a probe answered 200.
C15_ReauthIsFreshLogin ==
    \A t \in Tasks :
        (At(t, "call_api", "reauth") \/ call[t].reauth_ok)
        => (auth[t].posts = 1 /\ auth[t].probe # 200)

\* C16: when authenticate() was given a credential and its login has raised
\* SmartmeterLoginError or SmartmeterConnectionError, the client holds no
\* live session.
C16_FailedLoginDropsSession ==
    \A t \in Tasks :
        ( /\ result[t].op = "authenticate"
          /\ result[t].kind = "raised"
          /\ auth[t].args
          /\ auth[t].val \in {"SmartmeterLoginError", "SmartmeterConnectionError"} )
        => session = None

\* The frame that awaits frame i of task t.
Caller(t, i) == stack[t][i - 1]

\* C18: a meter request is under way only with the account id set, a period
\* request only with the metering point id set, and an accessor is looking
\* an identifier up only while that identifier is not cached.
C18_IdentifiersResolvedFirst ==
    \A t \in Tasks : \A i \in 2..Len(stack[t]) :
        /\ (stack[t][i].fn = "call_api" /\ Caller(t, i).fn = "get_meter_details")
              => account_id # None
        /\ (stack[t][i].fn = "call_api" /\ Caller(t, i).fn \in ConsumptionAccessors)
              => metering_point_id # None
        /\ (stack[t][i].fn = "get_meter_details" /\ Caller(t, i).fn \in ConsumptionAccessors)
              => metering_point_id = None
        /\ (stack[t][i].fn = "get_accounting_details" /\ Caller(t, i).fn = "get_meter_details")
              => account_id = None

\* A consumption accessor has its period request under way, the GET sent,
\* with both identifiers cached.
C18_Witness ==
    \E t \in Tasks :
        /\ result[t].op \in ConsumptionAccessors
        /\ Len(stack[t]) = 2
        /\ At(t, "call_api", "get")
        /\ period[t] = "requested"
        /\ account_id = "acc"
        /\ metering_point_id = "mp"

\* C19: with one task, whenever authenticate() has returned, the client
\* has a live session and the store holds the cookies of that session: the
\* ones loaded from the store if no POST was sent, the ones of the login
\* answered 200 otherwise.
C19_StoreHoldsLiveSession ==
    \A t \in Tasks :
        auth[t].state = "returned" =>
            /\ session \in Cookies
            /\ file = session
            /\ auth[t].posts = 0 => (auth[t].probe = 200 /\ session = auth[t].loaded)
            /\ auth[t].posts = 1 => auth[t].post_status = 200

\* authenticate() found the session c1 stored, the probe rejected it, the
\* login was answered with the cookies c2: these are live and stored.
C19_Witness ==
    \E t \in Tasks :
        /\ auth[t].state = "returned"
        /\ auth[t].store_before = "c1"
        /\ auth[t].probe = 401
        /\ auth[t].posts = 1
        /\ session = "c2"
        /\ file = "c2"

\* C20: when two concurrent _call_api have both ended and the latest
\* authenticate() of each has returned True, the client has a live session
\* and the session file holds the cookies of that session.
C20_ConcurrentOneSession ==
    (\A t \in Tasks :
        /\ result[t].kind \in {"returned", "raised"}
        /\ auth[t].state = "returned")
    => (session \in Cookies /\ file = session)

====
